---- MODULE Spec2Model ----
(***************************************************************************)
(* Model of src/src/prepare_data.py: the batch pipeline                    *)
(*   determine_winning_bet(data, bet_strategy)                             *)
(*   apply_dalembert_system(data, initial_bank, base_bet)                  *)
(* run over one DataFrame, as app_above.py / app_range.py call it.         *)
(*                                                                         *)
(* Numbers.  The code computes in binary floating point.  The model keeps  *)
(* exact integers in fixed units:                                          *)
(*   odds and 'Coefficient'          hundredths (1.8  is 180)              *)
(*   probabilities                   ten-thousandths (0.3705 is 3705)      *)
(*   dalembert_bank and its history  hundredths (505.56 is 50556)          *)
(*   initial_bank, base_bet, stakes  whole units, as the callers pass them *)
(* A DataFrame is [columns, rows]: the set of column labels, and the rows  *)
(* as functions from column label to cell; a cell never written is "NaN".  *)
(***************************************************************************)
EXTENDS Integers, Sequences, FiniteSets, TLC

VARIABLES
    data,                     \* the DataFrame both functions mutate in place
    bet_strategy,             \* argument of determine_winning_bet
    initial_bank,             \* argument of apply_dalembert_system
    base_bet,                 \* argument of apply_dalembert_system
    pc,                       \* position of the pipeline
    error,                    \* the exception that ended the run, or "none"
    dalembert_bank,           \* locals of apply_dalembert_system
    dalembert_bank_progress,
    current_bet,
    winning_streak,
    losing_streak,
    index,                    \* number of rows the loop has processed
    results                   \* the returned dict, or "none"

vars == <<data, bet_strategy, initial_bank, base_bet, pc, error, dalembert_bank,
          dalembert_bank_progress, current_bet, winning_streak, losing_streak,
          index, results>>

simVars == <<dalembert_bank, dalembert_bank_progress, current_bet,
             winning_streak, losing_streak, index>>

\* Longest generated input frame (the docstring frames are added as they are).
MaxMatches == 3

----------------------------------------------------------------------------
(* Input frames *)

InputColumns == {"B365H", "B365D", "B365A", "FTR"}

Match(h, d, a, r) ==
    [c \in InputColumns |->
        CASE c = "B365H" -> h [] c = "B365D" -> d [] c = "B365A" -> a [] OTHER -> r]

ResultCodes == {"H", "D", "A"}

\* Two odds values give every pattern of ties among the three outcomes.
OddsValues == {200, 250}

Matches ==
    {Match(h, d, a, r) : h \in OddsValues, d \in OddsValues, a \in OddsValues,
                         r \in ResultCodes}

\* Rows 1 and 4 of the apply_dalembert_system docstring, under every result:
\* the alphabet of the longer generated frames.
SequenceMatches ==
    {Match(180, 340, 420, r) : r \in ResultCodes}
        \cup {Match(300, 300, 290, r) : r \in ResultCodes}

SeqsUpTo(S, n) == UNION {[1..k -> S] : k \in 0..n}

\* The frame of the apply_dalembert_system docstring.
DalembertExample ==
    << Match(180, 340, 420, "H"), Match(250, 340, 250, "H"),
       Match(250, 340, 310, "A"), Match(300, 300, 290, "D"),
       Match(190, 340, 420, "D"), Match(200, 360, 300, "H"),
       Match(210, 320, 290, "A") >>

\* The odds of the calculate_win_probabilities docstring, and a home/draw tie
\* below the away odds, each as a one-row frame.
ProbabilityExample == << Match(250, 280, 310, "H") >>
TieExample == << Match(250, 250, 300, "D") >>

Frames ==
    SeqsUpTo(SequenceMatches, MaxMatches)
        \cup {<<m>> : m \in Matches}
        \cup {DalembertExample, ProbabilityExample, TieExample}

BetStrategies == {"min_coef", "max_coef", "draw", "home", "away", "value"}

\* <<initial_bank, base_bet>>: the defaults, a zero and a negative unit, an
\* empty bank, and a bank of two units that two losses exhaust.
Parameters == { <<500, 10>>, <<500, 0>>, <<500, -10>>, <<0, 10>>, <<20, 10>> }

----------------------------------------------------------------------------
(* DataFrame operations *)

Put(row, col, v) == [c \in (DOMAIN row) \cup {col} |-> IF c = col THEN v ELSE row[c]]

\* df[col] = values, one value per row
SetColumn(df, col, values) ==
    [columns |-> df.columns \cup {col},
     rows    |-> [i \in DOMAIN df.rows |-> Put(df.rows[i], col, values[i])]]

\* df.at[i, col] = v : creates the column, "NaN" in the other rows, if absent
SetAt(df, i, col, v) ==
    [columns |-> df.columns \cup {col},
     rows    |-> [j \in DOMAIN df.rows |->
                    IF j = i THEN Put(df.rows[j], col, v)
                    ELSE IF col \in DOMAIN df.rows[j] THEN df.rows[j]
                    ELSE Put(df.rows[j], col, "NaN")]]

----------------------------------------------------------------------------
(* calculate_win_probabilities *)

RECURSIVE ProductExcept(_, _, _)
\* the product of odds[k] for k in 1..n, k # i
ProductExcept(odds, i, n) ==
    IF n = 0 THEN 1
    ELSE (IF n = i THEN 1 ELSE odds[n]) * ProductExcept(odds, i, n - 1)

RECURSIVE SumOver(_, _)
SumOver(f, n) == IF n = 0 THEN 0 ELSE f[n] + SumOver(f, n - 1)

\* round(num / den, 4) in ten-thousandths, halves to the even neighbour, on the
\* exact quotient (den > 0).  No input of the model lands on an exact half.
RoundDown4(num, den) == (10000 * num) \div den

Round4(num, den) ==
    LET q == (10000 * num) \div den
        r == (10000 * num) % den
    IN  IF 2 * r > den \/ (2 * r = den /\ q % 2 = 1) THEN q + 1 ELSE q

\* implied_probabilities[i] = 1 / odds[i]; each is divided by their sum and
\* rounded.  (1/odds[i]) / sum_j (1/odds[j]) is, exactly,
\* ProductExcept(odds, i) / sum_j ProductExcept(odds, j).
calculate_win_probabilities(odds) ==
    LET n == Len(odds)
        implied == [i \in 1..n |-> ProductExcept(odds, i, n)]
        total_implied_probability == SumOver(implied, n)
    IN  [i \in 1..n |-> Round4(implied[i], total_implied_probability)]

----------------------------------------------------------------------------
(* determine_winning_bet *)

FTRMap(ftr) == CASE ftr = "H" -> "1" [] ftr = "D" -> "X" [] ftr = "A" -> "2"

Min3(a, b, c) == IF a <= b /\ a <= c THEN a ELSE IF b <= c THEN b ELSE c
Max3(a, b, c) == IF a >= b /\ a >= c THEN a ELSE IF b >= c THEN b ELSE c

\* the comparison with B365D made before the one with B365H
BetDrawFirst(row) ==
    IF row["Coefficient"] = row["B365D"] THEN "X"
    ELSE IF row["Coefficient"] = row["B365H"] THEN "1" ELSE "2"

\* '1' if Coefficient == B365H else ('X' if Coefficient == B365D else '2')
BetOnCoefficient(row) ==
    IF row["Coefficient"] = row["B365H"] THEN "1"
    ELSE IF row["Coefficient"] = row["B365D"] THEN "X" ELSE "2"

\* Win Probabilities[0] if Bet == '1' else ([1] if Bet == 'X' else [2])
ProbabilityOfBet(row) ==
    IF row["Bet"] = "1" THEN row["Win Probabilities"][1]
    ELSE IF row["Bet"] = "X" THEN row["Win Probabilities"][2]
    ELSE row["Win Probabilities"][3]

\* The columns written before the strategy is looked at (lines 152-155).
RecodedFrame(df) ==
    LET d1 == SetColumn(df, "FTR_num",
                  [i \in DOMAIN df.rows |-> FTRMap(df.rows[i]["FTR"])])
    IN  SetColumn(d1, "Win Probabilities",
            [i \in DOMAIN d1.rows |->
                calculate_win_probabilities(
                    <<d1.rows[i]["B365H"], d1.rows[i]["B365D"], d1.rows[i]["B365A"]>>)])

\* Coefficient (the row's lowest or highest odds), Bet and Win Probability:
\* lines 158-163 and 169-174.
CoefficientColumns(df, coefficients) ==
    LET d1 == SetColumn(df, "Coefficient", coefficients)
        d2 == SetColumn(d1, "Bet",
                  [i \in DOMAIN d1.rows |-> BetOnCoefficient(d1.rows[i])])
    IN  SetColumn(d2, "Win Probability",
                  [i \in DOMAIN d2.rows |-> ProbabilityOfBet(d2.rows[i])])

\* The strategy's branch (lines 157-180), for a recognised strategy.
StrategyColumns(df, strategy) ==
    LET Column(k) == [i \in DOMAIN df.rows |-> df.rows[i]["Win Probabilities"][k]]
        Constant(v) == [i \in DOMAIN df.rows |-> v]
        Odds(i) == <<df.rows[i]["B365H"], df.rows[i]["B365D"], df.rows[i]["B365A"]>>
    IN  CASE strategy = "min_coef" ->
                CoefficientColumns(df,
                    [i \in DOMAIN df.rows |-> Min3(Odds(i)[1], Odds(i)[2], Odds(i)[3])])
          [] strategy = "draw" ->
                LET d1 == SetColumn(df, "Bet", Constant("X"))
                    d2 == SetColumn(d1, "Coefficient",
                              [i \in DOMAIN df.rows |-> df.rows[i]["B365D"]])
                IN  SetColumn(d2, "Win Probability", Column(2))
          [] strategy = "max_coef" ->
                CoefficientColumns(df,
                    [i \in DOMAIN df.rows |-> Max3(Odds(i)[1], Odds(i)[2], Odds(i)[3])])
          [] strategy = "home" ->
                SetColumn(SetColumn(df, "Bet", Constant("1")),
                          "Win Probability", Column(1))
          [] strategy = "away" ->
                SetColumn(SetColumn(df, "Bet", Constant("2")),
                          "Win Probability", Column(3))

RecognisedStrategies == {"min_coef", "draw", "max_coef", "home", "away"}

\* The whole function: the frame it leaves behind and the exception it raises.
determine_winning_bet(df, strategy) ==
    LET recoded == RecodedFrame(df)
    IN  IF strategy \in RecognisedStrategies
        THEN LET d1 == StrategyColumns(recoded, strategy)
                 d2 == SetColumn(d1, "Winning_Bet",
                           [i \in DOMAIN d1.rows |->
                               d1.rows[i]["Bet"] = d1.rows[i]["FTR_num"]])
             IN  [data  |-> SetColumn(d2, "betting_strateggy",
                                      [i \in DOMAIN d2.rows |-> strategy]),
                  error |-> "none"]
        ELSE [data |-> recoded, error |-> "ValueError"]

----------------------------------------------------------------------------
(* apply_dalembert_system *)

Max(a, b) == IF a >= b THEN a ELSE b

\* profit = current_bet * (row['Coefficient'] - 1), in hundredths
StakeTimesCoefficient(bet, coefficient) == bet * coefficient

Profit(bet, coefficient) == bet * (coefficient - 100)

\* current_bet = max(base_bet, current_bet - base_bet)
BetAfterWinNoFloor(bet, base) == bet - base

BetAfterWin(bet, base) == Max(base, bet - base)

\* current_bet += base_bet
BetAfterLossDoubled(bet, base) == 2 * bet

BetAfterLoss(bet, base) == bet + base

\* winning_streak += 1; losing_streak = 0
StreaksAfterWinNoReset(w, l) == [winning_streak |-> w + 1, losing_streak |-> l]

StreaksAfterWin(w, l) == [winning_streak |-> w + 1, losing_streak |-> 0]

\* losing_streak += 1; winning_streak = 0
StreaksAfterLoss(w, l) == [winning_streak |-> 0, losing_streak |-> l + 1]

TypeOK ==
    /\ pc \in {"loaded", "selected", "running", "done", "failed"}
    /\ error \in {"none", "ValueError", "KeyError", "ZeroDivisionError"}
    /\ bet_strategy \in BetStrategies
    /\ <<initial_bank, base_bet>> \in Parameters
    /\ index \in 0..Len(data.rows)
    /\ winning_streak \in Nat /\ losing_streak \in Nat
    /\ current_bet \in Int /\ dalembert_bank \in Int
    /\ Len(dalembert_bank_progress) = index

Init ==
    /\ \E frame \in Frames : data = [columns |-> InputColumns, rows |-> frame]
    /\ bet_strategy \in BetStrategies
    /\ \E p \in Parameters : initial_bank = p[1] /\ base_bet = p[2]
    /\ pc = "loaded"
    /\ error = "none"
    /\ dalembert_bank = 0
    /\ dalembert_bank_progress = << >>
    /\ current_bet = 0
    /\ winning_streak = 0
    /\ losing_streak = 0
    /\ index = 0
    /\ results = "none"

\* data_ext = determine_winning_bet(data=filtered_data, bet_strategy=bet_strategy)
DetermineWinningBet ==
    /\ pc = "loaded"
    /\ LET r == determine_winning_bet(data, bet_strategy)
       IN  /\ data' = r.data
           /\ error' = r.error
           /\ pc' = IF r.error = "none" THEN "selected" ELSE "failed"
    /\ UNCHANGED <<bet_strategy, initial_bank, base_bet, results>>
    /\ UNCHANGED simVars

\* apply_dalembert_system is entered: lines 227-231
ApplyDalembertSystem ==
    /\ pc = "selected"
    /\ dalembert_bank' = initial_bank * 100
    /\ dalembert_bank_progress' = << >>
    /\ current_bet' = base_bet
    /\ winning_streak' = 0
    /\ losing_streak' = 0
    /\ index' = 0
    /\ pc' = "running"
    /\ UNCHANGED <<data, bet_strategy, initial_bank, base_bet, error, results>>

\* one iteration of the loop over data.iterrows(): lines 233-255
DalembertStep ==
    /\ pc = "running"
    /\ index < Len(data.rows)
    /\ LET i == index + 1
           row == data.rows[i]
           staked == SetAt(data, i, "Current Bet", current_bet)
       IN  IF row["Winning_Bet"] /\ "Coefficient" \notin DOMAIN row
           THEN \* row['Coefficient'] raises KeyError, 'Current Bet' being written
                /\ data' = staked
                /\ pc' = "failed"
                /\ error' = "KeyError"
                /\ UNCHANGED simVars
           ELSE LET bank == IF row["Winning_Bet"]
                            THEN dalembert_bank + Profit(current_bet, row["Coefficient"])
                            ELSE dalembert_bank - current_bet * 100
                    streaks == IF row["Winning_Bet"]
                               THEN StreaksAfterWin(winning_streak, losing_streak)
                               ELSE StreaksAfterLoss(winning_streak, losing_streak)
                    d1 == SetAt(staked, i, "Winning Streak", streaks.winning_streak)
                    d2 == SetAt(d1, i, "Losing Streak", streaks.losing_streak)
                IN  /\ dalembert_bank' = bank
                    /\ current_bet' = IF row["Winning_Bet"]
                                      THEN BetAfterWin(current_bet, base_bet)
                                      ELSE BetAfterLoss(current_bet, base_bet)
                    /\ winning_streak' = streaks.winning_streak
                    /\ losing_streak' = streaks.losing_streak
                    /\ dalembert_bank_progress' = Append(dalembert_bank_progress, bank)
                    /\ data' = SetAt(d2, i, "dalembert_bank_progress", bank)
                    /\ index' = i
                    /\ UNCHANGED <<pc, error>>
    /\ UNCHANGED <<bet_strategy, initial_bank, base_bet, results>>

Wins(df) == Cardinality({i \in DOMAIN df.rows : df.rows[i]["Winning_Bet"]})

\* the metrics and the return: lines 257-272.  A ratio is [num, den].
DalembertReturn ==
    /\ pc = "running"
    /\ index = Len(data.rows)
    /\ LET total_profit_dalembert == dalembert_bank - initial_bank * 100
       IN  IF initial_bank = 0 \/ Len(data.rows) = 0
           THEN \* total_profit_dalembert / initial_bank, or ... / len(data)
                /\ pc' = "failed"
                /\ error' = "ZeroDivisionError"
                /\ UNCHANGED results
           ELSE /\ pc' = "done"
                /\ results' =
                     [dalembert_bank_progress |-> dalembert_bank_progress,
                      total_profit_dalembert  |-> total_profit_dalembert,
                      roi_dalembert  |-> [num |-> total_profit_dalembert,
                                          den |-> initial_bank],
                      final_bank_balance |-> dalembert_bank,
                      win_ratio |-> [num |-> 100 * Wins(data), den |-> Len(data.rows)]]
                /\ UNCHANGED error
    /\ UNCHANGED <<data, bet_strategy, initial_bank, base_bet>>
    /\ UNCHANGED simVars

Next ==
    \/ DetermineWinningBet
    \/ ApplyDalembertSystem
    \/ DalembertStep
    \/ DalembertReturn

Spec == Init /\ [][Next]_vars

----------------------------------------------------------------------------
(* Reading the frame *)

Rows == data.rows
Won(i) == Rows[i]["Winning_Bet"]
StakeUsed(i) == Rows[i]["Current Bet"]
BankAfter(i) == Rows[i]["dalembert_bank_progress"]

\* The rows as they were read: the input columns alone.
InputFrame == [i \in DOMAIN Rows |-> [c \in InputColumns |-> Rows[i][c]]]

\* The per-step output (winStreak, loseStreak, stakeUsed, bankroll) of a run.
StepOutput ==
    [i \in 1..index |-> <<Rows[i]["Winning Streak"], Rows[i]["Losing Streak"],
                          StakeUsed(i), BankAfter(i)>>]

\* apply_dalembert_system has been entered and has not raised.
Simulating == pc \in {"running", "done"}

----------------------------------------------------------------------------
(* C1 *)

----------------------------------------------------------------------------
(* C2 *)

\* C2: after every step at most one of the two streaks is non-zero, in the
\* locals and in the columns written for the step: a won step adds one to the
\* winning streak and zeroes the losing streak, a lost step the reverse.
C2_StreakExclusive ==
    /\ winning_streak = 0 \/ losing_streak = 0
    /\ \A i \in 1..index :
          LET w == Rows[i]["Winning Streak"]
              l == Rows[i]["Losing Streak"]
              wBefore == IF i = 1 THEN 0 ELSE Rows[i - 1]["Winning Streak"]
              lBefore == IF i = 1 THEN 0 ELSE Rows[i - 1]["Losing Streak"]
          IN  /\ w = 0 \/ l = 0
              /\ IF Won(i) THEN w = wBefore + 1 /\ l = 0
                           ELSE l = lBefore + 1 /\ w = 0
    /\ index > 0 /\ pc # "loaded" =>
          /\ winning_streak = Rows[index]["Winning Streak"]
          /\ losing_streak = Rows[index]["Losing Streak"]

\* A losing streak of two ended by a win, and a later loss ending that win.
C2_Witness ==
    \E i \in 3..index :
        /\ Rows[i - 1]["Losing Streak"] >= 2
        /\ Rows[i]["Winning Streak"] = 1
        /\ i < index /\ Rows[i + 1]["Losing Streak"] = 1

----------------------------------------------------------------------------
(* C3 *)

\* C3: while the simulation runs the stake is never below base_bet, and no
\* stake written to 'Current Bet' is.
C3_StakeFloor ==
    Simulating =>
        /\ current_bet >= base_bet
        /\ \A i \in 1..index : StakeUsed(i) >= base_bet

----------------------------------------------------------------------------
(* C4 *)

ReferenceRun ==
    /\ InputFrame = DalembertExample
    /\ bet_strategy = "min_coef"
    /\ initial_bank = 500 /\ base_bet = 10
    /\ pc = "done"

----------------------------------------------------------------------------
(* C5 *)

\* C5: with valid parameters, a run over an empty frame raises nothing, and
\* returns the initial state and a summary of zero profit and zero win ratio.
C5_EmptyRunCompletes ==
    (/\ Rows = << >> /\ initial_bank > 0 /\ base_bet > 0
     /\ bet_strategy \in RecognisedStrategies) =>
        /\ error = "none"
        /\ pc = "done" =>
              /\ results.dalembert_bank_progress = << >>
              /\ results.total_profit_dalembert = 0
              /\ results.win_ratio.num = 0
              /\ results.final_bank_balance = initial_bank * 100
              /\ current_bet = base_bet
              /\ winning_streak = 0 /\ losing_streak = 0

----------------------------------------------------------------------------
(* C6 *)

\* the odds column an outcome code stands for
OddsOf(row, bet) ==
    CASE bet = "1" -> row["B365H"] [] bet = "X" -> row["B365D"] [] bet = "2" -> row["B365A"]

\* determine_winning_bet has returned.
Selected == pc \in {"selected", "running", "done"}

\* C6: under every recognised strategy the frame determine_winning_bet returns
\* has a 'Coefficient' column holding, in each row, the odds of the outcome in
\* 'Bet', and no won step of the simulation fails for want of it.
C6_CoefficientOfBet ==
    /\ Selected =>
          /\ "Coefficient" \in data.columns
          /\ \A i \in DOMAIN Rows :
                Rows[i]["Coefficient"] = OddsOf(Rows[i], Rows[i]["Bet"])
    /\ error # "KeyError"

----------------------------------------------------------------------------
(* C7 *)

Outcomes == <<"1", "X", "2">>

\* the first outcome, in the order home, draw, away, whose odds are `odds`
FirstWithOdds(row, odds) ==
    Outcomes[CHOOSE k \in 1..3 :
                /\ OddsOf(row, Outcomes[k]) = odds
                /\ \A j \in 1..(k - 1) : OddsOf(row, Outcomes[j]) # odds]

----------------------------------------------------------------------------
(* C8 *)

ExampleOdds(row) == row["B365H"] = 250 /\ row["B365D"] = 280 /\ row["B365A"] = 310

----------------------------------------------------------------------------
(* C9 *)

\* C9: with base_bet <= 0 the simulator raises before it runs the progression:
\* it processes no row and returns no result.
C9_RejectsNonPositiveUnit ==
    base_bet <= 0 => (index = 0 /\ pc # "done")

----------------------------------------------------------------------------
(* C10 *)

\* C10: a run that has ended in an error has written nothing: the frame holds
\* the input columns alone.
C10_NoPartialFailure ==
    pc = "failed" => data.columns = InputColumns

----------------------------------------------------------------------------
(* C11 *)

\* the rows processed so far were all lost
AllLost == \A i \in 1..index : ~Won(i)

\* C11: the simulation has no bankroll floor and no ruin check.  With a
\* positive unit s and initial bank B, after n losses from the start the bank is
\* B - s*n*(n+1)/2 and the stake s*(n+1), the k-th of them having been staked
\* s*k whatever the bank was; a run in its loop whose stake exceeds its bank has
\* a next step, so it goes on below zero; it returns only after the last row;
\* and it raises only for a missing 'Coefficient' or a division by zero in the
\* metrics.
C11_NoBankrollFloor ==
    /\ (Simulating /\ base_bet > 0 /\ AllLost) =>
          /\ 2 * dalembert_bank
                = 2 * 100 * initial_bank - 100 * base_bet * index * (index + 1)
          /\ current_bet = base_bet * (index + 1)
          /\ \A k \in 1..index :
                /\ StakeUsed(k) = base_bet * k
                /\ 2 * BankAfter(k)
                      = 2 * 100 * initial_bank - 100 * base_bet * k * (k + 1)
    /\ (pc = "running" /\ dalembert_bank < current_bet * 100) =>
          ENABLED (DalembertStep \/ DalembertReturn)
    /\ pc = "done" => index = Len(Rows)
    /\ (pc = "failed" /\ error # "ValueError") =>
          \/ /\ error = "KeyError"
             /\ "Coefficient" \notin data.columns
          \/ /\ error = "ZeroDivisionError"
             /\ index = Len(Rows)
             /\ initial_bank = 0 \/ Len(Rows) = 0

\* Three losses from the start with a bank of two units: the second stake
\* exceeds the bank, the third is placed with the bank below zero, and the run
\* returns with a negative balance.
C11_Witness ==
    /\ pc = "done" /\ base_bet > 0 /\ initial_bank > 0
    /\ AllLost /\ index >= 3
    /\ StakeUsed(2) * 100 > BankAfter(1)
    /\ BankAfter(2) < 0
    /\ StakeUsed(3) = 3 * base_bet
    /\ results.final_bank_balance < 0

====
